---- MODULE Spec2Model ----
(***************************************************************************)
(* A model of app/models/job.py: the JobDocument record, its property      *)
(* setters, to_dict() and the static factory from_json().                  *)
(*                                                                         *)
(* Python values are tagged records, so that values of different Python    *)
(* types are comparable: None, bool, str, dict, a JobDocument instance and *)
(* a raised exception.  An instance is its instance dictionary, a function *)
(* from attribute names to values.                                         *)
(***************************************************************************)
EXTENDS Naturals, Sequences, FiniteSets, TLC

\* doc       the instance dictionary of the record under study
\* ctor      the arguments its constructor was given
\* assigned  for each field, the value it was last given: by the constructor,
\*           by the entry of the mapping from_json was given, or by a call
\*           of its setter
\* fresh     nothing has been assigned to doc since its constructor ran
\* op        the last call: "__init__", a setter's name, "to_dict", "from_json"
\* arg       the argument of the last call, as it was passed
\* obj       the caller's argument object after the call
\* ret       what the last call returned or raised
\* trace     the keys the last from_json call assigned to its new instance
\* origin    None for a record its caller constructed, and for a record that
\*           from_json returned the mapping from_json was given
\* repeated  the last call was to_dict() and so was the call before it
VARIABLES doc, ctor, assigned, fresh, op, arg, obj, ret, trace, origin, repeated

vars == <<doc, ctor, assigned, fresh, op, arg, obj, ret, trace, origin, repeated>>

(* ------------------------------ values --------------------------------- *)

None == [t |-> "NoneType"]
PyBool(b) == [t |-> "bool", b |-> b]
PyStr(s) == [t |-> "str", s |-> s]
PyDict(d) == [t |-> "dict", d |-> d]
Instance(attrs) == [t |-> "JobDocument", attrs |-> attrs]
Raise(exc) == [t |-> "raise", exc |-> exc]

EmptyDict == [k \in {} |-> None]

\* str(value) as the %s conversion of ID_FORMAT applies it.
str(value) ==
    CASE value.t = "str" -> value.s
      [] value.t = "NoneType" -> "None"
      [] value.t = "bool" -> IF value.b THEN "True" ELSE "False"

(* ------------------------- keys and constants -------------------------- *)

ID_KEY == "_id"
JOB_KEY == "job"
KERNEL_KEY == "kernel"
METADATA_KEY == "metadata"
PRIVATE_KEY == "private"
STATUS_KEY == "status"
UPDATED_KEY == "updated"
GIT_COMMIT_KEY == "git_commit"

JOB_COLLECTION == "job"

\* ID_FORMAT % {'job': job, 'kernel': kernel}
ID_FORMAT(job_, kernel_) == str(job_) \o "-" \o str(kernel_)

(* ----------------------------- BaseDocument ---------------------------- *)

\* BaseDocument.__init__(name): the base keeps the name as the identity.
BaseDocument(name) == [a \in {"_name"} |-> name]

\* BaseDocument.to_dict(): the mapping holding the identity key.
BaseDocument_to_dict(self) == [k \in {ID_KEY} |-> self["_name"]]

(* ----------------------------- JobDocument ----------------------------- *)

\* The constructor with metadata left unset (None).
JobDocument_null_metadata(name, job_, kernel_) ==
    BaseDocument(name) @@
        [a \in {"_private", "_job", "_kernel", "_status", "_updated", "_metadata"} |->
            CASE a = "_private" -> PyBool(FALSE)
              [] a = "_job" -> job_
              [] a = "_kernel" -> kernel_
              [] a = "_status" -> None
              [] a = "_updated" -> None
              [] a = "_metadata" -> None]

\* The argument of super(JobDocument, self).__init__(name): the name as it
\* was passed; job and kernel are not handed to the base.
super_init_name(name, job_, kernel_) == name

\* JobDocument.__init__(self, name, job=None, kernel=None)
JobDocument(name, job_, kernel_) ==
    BaseDocument(super_init_name(name, job_, kernel_)) @@
        [a \in {"_private", "_job", "_kernel", "_status", "_updated", "_metadata"} |->
            CASE a = "_private" -> PyBool(FALSE)
              [] a = "_job" -> job_
              [] a = "_kernel" -> kernel_
              [] a = "_status" -> None
              [] a = "_updated" -> None
              [] a = "_metadata" -> PyDict(EmptyDict)]

\* The attribute names the constructor stores the identity and the fields
\* under.
BackingAttributes == DOMAIN JobDocument(None, None, None)

\* self.<attr> read, for a name no class defines: the entry of the instance
\* dictionary, AttributeError when it has none.
load_attr(self, attr) ==
    IF attr \in DOMAIN self THEN self[attr] ELSE Raise("AttributeError")

\* self.<attr> = value, for a name no class defines: the entry of the
\* instance dictionary is replaced, or created when it has none.
store_attr(self, attr, value) ==
    IF attr \in DOMAIN self THEN [self EXCEPT ![attr] = value] ELSE self @@ (attr :> value)

\* The property getters.
name(self) == load_attr(self, "_name")
collection(self) == PyStr(JOB_COLLECTION)
private(self) == load_attr(self, "_private")
job(self) == load_attr(self, "_job")
kernel(self) == load_attr(self, "_kernel")
updated(self) == load_attr(self, "_updated")
status(self) == load_attr(self, "_status")
metadata(self) == load_attr(self, "_metadata")

\* The property setters.
private_setter(self, value) == store_attr(self, "_private", value)
job_setter(self, value) == store_attr(self, "_job", value)

\* A kernel setter that also rewrites the identity from job and kernel.
kernel_setter_recomputes_id(self, value) ==
    store_attr(store_attr(self, "_kernel", value),
               "_name", PyStr(ID_FORMAT(self["_job"], value)))

kernel_setter(self, value) == store_attr(self, "_kernel", value)
updated_setter(self, value) == store_attr(self, "_updated", value)

\* A status setter that stores into the neighbouring field.
status_setter_wrong_field(self, value) == store_attr(self, "_updated", value)

status_setter(self, value) == store_attr(self, "_status", value)
metadata_setter(self, value) == store_attr(self, "_metadata", value)

\* What a to_dict() call leaves: the mapping returned or the exception
\* raised (ret), and the instance dictionary after the call (self).
Returned(ret_, self) == [ret |-> ret_, self |-> self]

\* to_dict() with the job and kernel entries exchanged.
to_dict_swapped(self) ==
    Returned(PyDict(BaseDocument_to_dict(self) @@
        [k \in {PRIVATE_KEY, JOB_KEY, KERNEL_KEY, UPDATED_KEY, STATUS_KEY, METADATA_KEY} |->
            CASE k = PRIVATE_KEY -> self["_private"]
              [] k = JOB_KEY -> self["_kernel"]
              [] k = KERNEL_KEY -> self["_job"]
              [] k = UPDATED_KEY -> self["_updated"]
              [] k = STATUS_KEY -> self["_status"]
              [] k = METADATA_KEY -> self["_metadata"]]), self)

\* to_dict() that leaves the status entry out.
to_dict_no_status(self) ==
    Returned(PyDict(BaseDocument_to_dict(self) @@
        [k \in {PRIVATE_KEY, JOB_KEY, KERNEL_KEY, UPDATED_KEY, METADATA_KEY} |->
            CASE k = PRIVATE_KEY -> self["_private"]
              [] k = JOB_KEY -> self["_job"]
              [] k = KERNEL_KEY -> self["_kernel"]
              [] k = UPDATED_KEY -> self["_updated"]
              [] k = METADATA_KEY -> self["_metadata"]]), self)

\* to_dict() that moves the metadata into the mapping it returns and leaves
\* the record with an empty one.
to_dict_moves_metadata(self) ==
    Returned(PyDict(BaseDocument_to_dict(self) @@
        [k \in {PRIVATE_KEY, JOB_KEY, KERNEL_KEY, UPDATED_KEY, STATUS_KEY, METADATA_KEY} |->
            CASE k = PRIVATE_KEY -> self["_private"]
              [] k = JOB_KEY -> self["_job"]
              [] k = KERNEL_KEY -> self["_kernel"]
              [] k = UPDATED_KEY -> self["_updated"]
              [] k = STATUS_KEY -> self["_status"]
              [] k = METADATA_KEY -> self["_metadata"]]),
             store_attr(self, "_metadata", PyDict(EmptyDict)))

\* JobDocument.to_dict(self): the mapping of the base with the six fields
\* added, each statement reading one attribute of self into the mapping;
\* AttributeError when the instance dictionary lacks an attribute that is
\* read.  No statement assigns to self.
to_dict(self) ==
    IF BackingAttributes \subseteq DOMAIN self
    THEN Returned(PyDict(BaseDocument_to_dict(self) @@
            [k \in {PRIVATE_KEY, JOB_KEY, KERNEL_KEY, UPDATED_KEY, STATUS_KEY, METADATA_KEY} |->
                CASE k = PRIVATE_KEY -> self["_private"]
                  [] k = JOB_KEY -> self["_job"]
                  [] k = KERNEL_KEY -> self["_kernel"]
                  [] k = UPDATED_KEY -> self["_updated"]
                  [] k = STATUS_KEY -> self["_status"]
                  [] k = METADATA_KEY -> self["_metadata"]]), self)
    ELSE Returned(Raise("AttributeError"), self)

(* ------------------------------ from_json ------------------------------ *)

\* isinstance(json_obj, StringTypes)
isinstance_StringTypes(value) == value.t = "str"

\* json_util.loads(text): the JSON decoder, for texts made of objects,
\* strings without escapes, null, true and false.  A parse step answers
\* [tag |-> "ok", v |-> the value, i |-> the index after it], or "error" where
\* the decoder raises ValueError, or "unsupported" where the text leaves what
\* is modelled (numbers, arrays, escapes, the $-keys json_util converts).
Ok(v, i) == [tag |-> "ok", v |-> v, i |-> i]
Error == [tag |-> "error"]
Unsupported == [tag |-> "unsupported"]

\* text[i], or "" past the end.
Char(text, i) == IF i <= Len(text) THEN SubSeq(text, i, i) ELSE ""

StartsWith(text, i, lit) ==
    i + Len(lit) - 1 <= Len(text) /\ SubSeq(text, i, i + Len(lit) - 1) = lit

Whitespace == {" ", "\t", "\n", "\r"}
ControlChars == {"\t", "\n", "\r", "\f"}
Digits == {"0", "1", "2", "3", "4", "5", "6", "7", "8", "9"}

\* The index of the first character at or after i that is not whitespace.
RECURSIVE skip_whitespace(_, _)
skip_whitespace(text, i) ==
    IF Char(text, i) \in Whitespace THEN skip_whitespace(text, i + 1) ELSE i

\* The string whose opening quote is before i.
RECURSIVE scan_string(_, _, _)
scan_string(text, i, acc) ==
    LET c == Char(text, i)
    IN CASE c = "" -> Error
         [] c = "\"" -> Ok(acc, i + 1)
         [] c = "\\" -> Unsupported
         [] c \in ControlChars -> Error
         [] OTHER -> scan_string(text, i + 1, acc \o c)

RECURSIVE scan_value(_, _)
RECURSIVE scan_pairs(_, _, _)

\* The entries of an object from the key that starts at i; a key that comes
\* twice keeps its last value.
scan_pairs(text, i, acc) ==
    IF Char(text, i) # "\""
    THEN Error
    ELSE LET k == scan_string(text, i + 1, "")
         IN IF k.tag # "ok" THEN k
            ELSE IF StartsWith(k.v, 1, "$") THEN Unsupported
            ELSE LET c == skip_whitespace(text, k.i)
                 IN IF Char(text, c) # ":" THEN Error
                    ELSE LET v == scan_value(text, skip_whitespace(text, c + 1))
                         IN IF v.tag # "ok" THEN v
                            ELSE LET acc2 == [x \in DOMAIN acc \cup {k.v} |->
                                                 IF x = k.v THEN v.v ELSE acc[x]]
                                     e == skip_whitespace(text, v.i)
                                 IN CASE Char(text, e) = "}" -> Ok(PyDict(acc2), e + 1)
                                      [] Char(text, e) = "," ->
                                            scan_pairs(text, skip_whitespace(text, e + 1), acc2)
                                      [] OTHER -> Error

\* The value that starts at i.
scan_value(text, i) ==
    LET c == Char(text, i)
    IN CASE c = "\"" ->
               LET r == scan_string(text, i + 1, "")
               IN IF r.tag = "ok" THEN Ok(PyStr(r.v), r.i) ELSE r
         [] c = "{" ->
               LET j == skip_whitespace(text, i + 1)
               IN IF Char(text, j) = "}"
                  THEN Ok(PyDict(EmptyDict), j + 1)
                  ELSE scan_pairs(text, j, EmptyDict)
         [] StartsWith(text, i, "null") -> Ok(None, i + 4)
         [] StartsWith(text, i, "true") -> Ok(PyBool(TRUE), i + 4)
         [] StartsWith(text, i, "false") -> Ok(PyBool(FALSE), i + 5)
         [] c \in Digits \cup {"-", "["} -> Unsupported
         [] StartsWith(text, i, "NaN") \/ StartsWith(text, i, "Infinity") -> Unsupported
         [] OTHER -> Error

\* json_util.loads(text): the value, or ValueError for text that is not
\* valid or has anything but whitespace after the value.
loads(text) ==
    LET r == scan_value(text, skip_whitespace(text, 1))
    IN CASE r.tag = "error" -> Raise("ValueError")
         [] r.tag = "ok" /\ skip_whitespace(text, r.i) = Len(text) + 1 -> r.v
         [] r.tag = "ok" /\ skip_whitespace(text, r.i) # Len(text) + 1 -> Raise("ValueError")

\* The exchange-format texts of the model.
ValidText == "{\"_id\": \"a-b\", \"status\": \"PASS\"}"
NoIdText == "{\"job\": \"x\", \"kernel\": \"y\"}"
NestedText == "{\"_id\":\"c-d\",\"metadata\":{\"git_commit\":\"abc123\"},\"private\":true}"
NullText == " null "
MalformedText == "{not valid}"

\* dict.pop(key) on a mapping holding key: the mapping that is left.
pop(d, key) == [k \in DOMAIN d \ {key} |-> d[k]]

\* The names the class gives a property with a setter, and the one
\* property (collection) that has a getter only.
SetterProperties == {"private", "job", "kernel", "updated", "status", "metadata"}
ReadOnlyProperties == {"collection"}

\* The values of the class attributes the class statement binds.
CROSS_COMPILE_KEY == "cross_compile"
COMPILER_VERSION_KEY == "compiler_version"
GIT_URL_KEY == "git_url"
GIT_BRANCH_KEY == "git_branch"
GIT_DESCRIBE_KEY == "git_describe"

METADATA_KEYS ==
    [t |-> "tuple",
     items |-> <<CROSS_COMPILE_KEY, COMPILER_VERSION_KEY, GIT_URL_KEY,
                 GIT_BRANCH_KEY, GIT_DESCRIBE_KEY, GIT_COMMIT_KEY>>]

BoundMethod(f) == [t |-> "instancemethod", name |-> f]
Function(f) == [t |-> "function", name |-> f]
Class(c) == [t |-> "type", name |-> c]

\* What a setattr() call leaves: the instance dictionary, and the exception
\* it raised ("" for none).
Stored(self) == [exc |-> "", self |-> self]
Failed(exc, self) == [exc |-> exc, self |-> self]

\* setattr() that skips names the class does not declare.
setattr_whitelist(self, key, value) ==
    CASE key = "private" -> Stored(private_setter(self, value))
      [] key = "job" -> Stored(job_setter(self, value))
      [] key = "kernel" -> Stored(kernel_setter(self, value))
      [] key = "updated" -> Stored(updated_setter(self, value))
      [] key = "status" -> Stored(status_setter(self, value))
      [] key = "metadata" -> Stored(metadata_setter(self, value))
      [] OTHER -> Stored(self)

\* The names object itself keeps a descriptor for, and the name the base
\* class keeps the identity under.
ObjectAttributes == {"__class__", "__dict__", "__weakref__"}
BaseProperties == {"name"}

\* The names a descriptor of the classes answers before the instance
\* dictionary is looked at.
DataDescriptors ==
    SetterProperties \cup ReadOnlyProperties \cup ObjectAttributes \cup BaseProperties

\* A name of the form __x__.
IsSpecialName(key) ==
    Len(key) > 4 /\ StartsWith(key, 1, "__") /\ StartsWith(key, Len(key) - 1, "__")

\* setattr(job_doc, key, value): a property's setter when the class has one
\* for key; AttributeError for a property without setter and for
\* __weakref__; for __class__ and __dict__ what object's own descriptors do
\* (__class__ takes the class the instance already has and raises TypeError
\* for a value that is no class; __dict__ takes a dictionary as the new
\* instance dictionary and raises TypeError for anything else); and for any
\* other name an entry of the instance dictionary.  No arm is given for what
\* the source does not decide: the name the base class keeps the identity
\* under, and a class other than JobDocument.  (A name that is not ASCII
\* raises UnicodeEncodeError in the code; the names of the model are ASCII.)
setattr(self, key, value) ==
    CASE key = "private" -> Stored(private_setter(self, value))
      [] key = "job" -> Stored(job_setter(self, value))
      [] key = "kernel" -> Stored(kernel_setter(self, value))
      [] key = "updated" -> Stored(updated_setter(self, value))
      [] key = "status" -> Stored(status_setter(self, value))
      [] key = "metadata" -> Stored(metadata_setter(self, value))
      [] key \in ReadOnlyProperties -> Failed("AttributeError", self)
      [] key = "__weakref__" -> Failed("AttributeError", self)
      [] key = "__class__" /\ value.t # "type" -> Failed("TypeError", self)
      [] key = "__class__" /\ value = Class("JobDocument") -> Stored(self)
      [] key = "__dict__" /\ value.t = "dict" -> Stored(value.d)
      [] key = "__dict__" /\ value.t # "dict" -> Failed("TypeError", self)
      [] key \notin DataDescriptors -> Stored(store_attr(self, key, value))

\* The docstring of class c, a str.  The text of the docstring of
\* JobDocument holds grave accents, which a string of this language cannot,
\* so the value names the docstring instead of spelling it.
Docstring(c) == [t |-> "str", doc |-> c]

\* What a descriptor of the classes answers for key on an instance.
descriptor_get(self, key) ==
    CASE key \in SetterProperties -> load_attr(self, "_" \o key)
      [] key = "collection" -> collection(self)
      [] key = "name" -> name(self)
      [] key = "__dict__" -> PyDict(self)
      [] key = "__class__" -> Class("JobDocument")
      [] key = "__weakref__" -> None

\* What the class statement binds key to, seen through an instance;
\* AttributeError for a name that is not special and that no class defines.
\* No arm is given for the special names object defines beyond those here.
class_attribute(key) ==
    CASE key = "ID_FORMAT" -> PyStr("%(job)s-%(kernel)s")
      [] key = "METADATA_KEYS" -> METADATA_KEYS
      [] key = "to_dict" -> BoundMethod("to_dict")
      [] key = "from_json" -> Function("from_json")
      [] key = "__init__" -> BoundMethod("__init__")
      [] key = "__doc__" -> Docstring("JobDocument")
      [] key = "__module__" -> PyStr("models.job")
      [] /\ ~IsSpecialName(key)
         /\ key \notin {"ID_FORMAT", "METADATA_KEYS", "to_dict", "from_json"} ->
            Raise("AttributeError")

\* getattr(job_doc, key) on an instance: a descriptor of the classes, then
\* the instance dictionary, then what the class defines.
getattr(self, key) ==
    CASE key \in DataDescriptors -> descriptor_get(self, key)
      [] key \notin DataDescriptors /\ key \in DOMAIN self -> self[key]
      [] key \notin DataDescriptors /\ key \notin DOMAIN self -> class_attribute(key)

\* The permutations of a set of keys.
RECURSIVE Orderings(_)
Orderings(S) ==
    IF S = {} THEN {<< >>}
    ELSE UNION {{<<x>> \o p : p \in Orderings(S \ {x})} : x \in S}

\* The orders of the key set to_dict() produces (without the identity key).
DeclaredKeys == {PRIVATE_KEY, JOB_KEY, KERNEL_KEY, UPDATED_KEY, STATUS_KEY, METADATA_KEY}
DeclaredOrders == Orderings(DeclaredKeys)

\* The orders in which iteritems() may yield the entries of d: the order of
\* a dict is not specified, every permutation of its keys is possible.
iteritems(d) ==
    IF DOMAIN d = DeclaredKeys THEN DeclaredOrders ELSE Orderings(DOMAIN d)

\* The loop of from_json: setattr for each entry of d, in the order given.
\* The result is the instance, or the exception that ended the loop, the set
\* of keys assigned, and the mapping d as the loop leaves it: once the
\* __dict__ entry has been assigned, the dictionary d holds under that key IS
\* the instance dictionary, so it shows every assignment that follows.
RECURSIVE assign_items(_, _, _, _)
assign_items(job_doc, d, order, done) ==
    IF order = << >>
    THEN [ret |-> Instance(job_doc), trace |-> done, d |-> d]
    ELSE LET key == Head(order)
             after == setattr(job_doc, key, d[key])
         IN IF after.exc # ""
            THEN [ret |-> Raise(after.exc), trace |-> done, d |-> d]
            ELSE assign_items(after.self,
                              IF "__dict__" \in done \cup {key}
                              THEN [d EXCEPT !["__dict__"] = PyDict(after.self)]
                              ELSE d,
                              Tail(order), done \cup {key})

\* from_json() reading the identity with a default instead of pop().
from_json_default_id(json_obj, order) ==
    LET parsed == IF isinstance_StringTypes(json_obj) THEN loads(json_obj.s) ELSE json_obj
    IN IF parsed.t = "raise"
       THEN [ret |-> parsed, obj |-> json_obj, trace |-> {}]
       ELSE IF parsed.t # "dict"
       THEN [ret |-> Raise("AttributeError"), obj |-> json_obj, trace |-> {}]
       ELSE LET name_ == IF ID_KEY \in DOMAIN parsed.d THEN parsed.d[ID_KEY] ELSE None
                rest == pop(parsed.d, ID_KEY)
                r == assign_items(JobDocument(name_, None, None), rest, order, {})
            IN [ret |-> r.ret,
                obj |-> IF isinstance_StringTypes(json_obj) THEN json_obj ELSE PyDict(r.d),
                trace |-> r.trace]

\* from_json() reading the identity with json_obj[ID_KEY], which leaves it
\* in the mapping.
from_json_keeps_id(json_obj, order) ==
    LET parsed == IF isinstance_StringTypes(json_obj) THEN loads(json_obj.s) ELSE json_obj
    IN IF parsed.t = "raise"
       THEN [ret |-> parsed, obj |-> json_obj, trace |-> {}]
       ELSE IF parsed.t # "dict"
       THEN [ret |-> Raise("AttributeError"), obj |-> json_obj, trace |-> {}]
       ELSE IF ID_KEY \notin DOMAIN parsed.d
       THEN [ret |-> Raise("KeyError"), obj |-> json_obj, trace |-> {}]
       ELSE LET rest == pop(parsed.d, ID_KEY)
                r == assign_items(JobDocument(parsed.d[ID_KEY], None, None), rest, order, {})
            IN [ret |-> r.ret,
                obj |-> IF isinstance_StringTypes(json_obj) THEN json_obj
                        ELSE PyDict([k \in {ID_KEY} |-> parsed.d[ID_KEY]] @@ r.d),
                trace |-> r.trace]

\* from_json() that never applies the entries of the mapping.
from_json_no_assign(json_obj, order) ==
    LET parsed == IF isinstance_StringTypes(json_obj) THEN loads(json_obj.s) ELSE json_obj
    IN IF parsed.t = "raise"
       THEN [ret |-> parsed, obj |-> json_obj, trace |-> {}]
       ELSE IF parsed.t # "dict"
       THEN [ret |-> Raise("AttributeError"), obj |-> json_obj, trace |-> {}]
       ELSE IF ID_KEY \notin DOMAIN parsed.d
       THEN [ret |-> Raise("KeyError"), obj |-> json_obj, trace |-> {}]
       ELSE [ret |-> Instance(JobDocument(parsed.d[ID_KEY], None, None)),
             obj |-> IF isinstance_StringTypes(json_obj) THEN json_obj
                     ELSE PyDict(pop(parsed.d, ID_KEY)),
             trace |-> {}]

\* The first step of from_json: a text is decoded, anything else is taken
\* as it is.
parse(json_obj) ==
    IF isinstance_StringTypes(json_obj) THEN loads(json_obj.s) ELSE json_obj

\* The rest of from_json for a mapping d that holds the identity key: the
\* key is popped, the instance constructed and every other entry assigned.
\* A mapping argument is the very object the caller holds, which is left as
\* pop() and the loop leave it; a text argument is left as it is.
build(json_obj, d, order) ==
    LET r == assign_items(JobDocument(d[ID_KEY], None, None), pop(d, ID_KEY), order, {})
    IN [ret |-> r.ret,
        obj |-> IF isinstance_StringTypes(json_obj) THEN json_obj ELSE PyDict(r.d),
        trace |-> r.trace]

\* JobDocument.from_json(json_obj), with the order iteritems() takes.  ret
\* is the instance returned or the exception raised, obj the argument
\* object after the call, trace the keys assigned to the new instance.  A
\* value that is no mapping (None, a bool, the string a text decodes to) has
\* no pop(): AttributeError.
from_json(json_obj, order) ==
    LET parsed == parse(json_obj)
    IN CASE parsed.t = "raise" -> [ret |-> parsed, obj |-> json_obj, trace |-> {}]
         [] parsed.t \notin {"raise", "dict"} ->
               [ret |-> Raise("AttributeError"), obj |-> json_obj, trace |-> {}]
         [] parsed.t = "dict" /\ ID_KEY \notin DOMAIN parsed.d ->
               [ret |-> Raise("KeyError"), obj |-> json_obj, trace |-> {}]
         [] OTHER -> build(json_obj, parsed.d, order)

\* The orders the loop of from_json(json_obj) may take.
orders(json_obj) ==
    LET parsed == IF isinstance_StringTypes(json_obj) THEN loads(json_obj.s) ELSE json_obj
    IN IF parsed.t # "dict" \/ ID_KEY \notin DOMAIN parsed.d
       THEN {<< >>}
       ELSE iteritems(pop(parsed.d, ID_KEY))

(* ------------------------------ inputs --------------------------------- *)

Names == {PyStr("myjob-3.10"), PyStr("a-b")}
CtorJobs == {None, PyStr("myjob")}
CtorKernels == {PyStr("3.10")}

SomeMetadata == PyDict([k \in {GIT_COMMIT_KEY} |-> PyStr("abc123")])

PrivateValues == {PyBool(TRUE)}
JobValues == {PyStr("otherjob")}
KernelValues == {PyStr("3.11")}
StatusValues == {PyStr("PASS")}
UpdatedValues == {PyStr("2014-08-01T10:00:00Z")}
MetadataValues == {SomeMetadata, None}

\* The mappings handed to from_json: the identity key or not, and at most
\* MaxKeys of the other keys, each with one of its values.
MaxKeys == 2

InputKeys ==
    {JOB_KEY, KERNEL_KEY, STATUS_KEY, METADATA_KEY, "foo", "collection", "_job",
     "__class__", "__dict__"}

InputValues(key) ==
    CASE key = JOB_KEY -> {PyStr("x")}
      [] key = KERNEL_KEY -> {PyStr("y")}
      [] key = STATUS_KEY -> {PyStr("PASS")}
      [] key = METADATA_KEY -> {SomeMetadata, None}
      [] key = "foo" -> {PyStr("bar")}
      [] key = "collection" -> {PyStr("job")}
      [] key = "_job" -> {PyStr("q")}
      [] key = "__class__" -> {PyStr("x"), Class("JobDocument")}
      [] key = "__dict__" -> {PyDict([k \in {"x"} |-> PyStr("y")]), None}
      [] key = ID_KEY -> {PyStr("a-b"), PyStr("c-d")}

\* The mappings over the keys S, each key with one of its values.
RECURSIVE MappingsOver(_)
MappingsOver(S) ==
    IF S = {} THEN {EmptyDict}
    ELSE LET k == CHOOSE x \in S : TRUE
         IN {m @@ (k :> v) : m \in MappingsOver(S \ {k}), v \in InputValues(k)}

InputMappings ==
    UNION {MappingsOver(K \cup I) :
              K \in {S \in SUBSET InputKeys : Cardinality(S) <= MaxKeys},
              I \in {{}, {ID_KEY}}}

Mappings == {PyDict(m) : m \in InputMappings}

Texts ==
    {PyStr(ValidText), PyStr(NoIdText), PyStr(NestedText), PyStr(NullText), PyStr(MalformedText)}

(* ------------------------------ the calls ------------------------------ *)

\* The value of a declared field right after JobDocument(name).
Default(f) ==
    CASE f = PRIVATE_KEY -> PyBool(FALSE)
      [] f = METADATA_KEY -> PyDict(EmptyDict)
      [] OTHER -> None

\* doc = JobDocument(name, job, kernel)
Init ==
    /\ \E n \in Names, j \in CtorJobs, k \in CtorKernels :
          /\ doc = JobDocument(n, j, k)
          /\ ctor = [name |-> n, job |-> j, kernel |-> k]
          /\ assigned = [private |-> PyBool(FALSE), job |-> j, kernel |-> k,
                         status |-> None, updated |-> None,
                         metadata |-> PyDict(EmptyDict)]
    /\ fresh = TRUE
    /\ op = "__init__"
    /\ arg = None
    /\ obj = None
    /\ ret = None
    /\ trace = {}
    /\ origin = None
    /\ repeated = FALSE

\* A setter call: the argument is value, nothing is returned.
SetterCall(field, value) ==
    /\ fresh' = FALSE
    /\ op' = field
    /\ arg' = value
    /\ obj' = value
    /\ ret' = None
    /\ trace' = {}
    /\ repeated' = FALSE
    /\ UNCHANGED <<ctor, origin>>

SetPrivate ==
    \E v \in PrivateValues :
        /\ doc' = private_setter(doc, v)
        /\ assigned' = [assigned EXCEPT !.private = v]
        /\ SetterCall("private", v)

SetJob ==
    \E v \in JobValues :
        /\ doc' = job_setter(doc, v)
        /\ assigned' = [assigned EXCEPT !.job = v]
        /\ SetterCall("job", v)

SetKernel ==
    \E v \in KernelValues :
        /\ doc' = kernel_setter(doc, v)
        /\ assigned' = [assigned EXCEPT !.kernel = v]
        /\ SetterCall("kernel", v)

SetUpdated ==
    \E v \in UpdatedValues :
        /\ doc' = updated_setter(doc, v)
        /\ assigned' = [assigned EXCEPT !.updated = v]
        /\ SetterCall("updated", v)

SetStatus ==
    \E v \in StatusValues :
        /\ doc' = status_setter(doc, v)
        /\ assigned' = [assigned EXCEPT !.status = v]
        /\ SetterCall("status", v)

SetMetadata ==
    \E v \in MetadataValues :
        /\ doc' = metadata_setter(doc, v)
        /\ assigned' = [assigned EXCEPT !.metadata = v]
        /\ SetterCall("metadata", v)

\* doc.to_dict(): the call returns or raises what to_dict gives and leaves
\* the record as to_dict leaves it.
ToDict ==
    /\ op' = "to_dict"
    /\ arg' = None
    /\ obj' = None
    /\ ret' = to_dict(doc).ret
    /\ doc' = to_dict(doc).self
    /\ trace' = {}
    /\ repeated' = (op = "to_dict")
    /\ UNCHANGED <<ctor, assigned, fresh, origin>>

\* JobDocument.from_json(json_obj): a static call, the record doc is not
\* involved.
FromJsonCall(json_obj) ==
    \E order \in orders(json_obj) :
        LET r == from_json(json_obj, order)
        IN /\ op' = "from_json"
           /\ arg' = json_obj
           /\ obj' = r.obj
           /\ ret' = r.ret
           /\ trace' = r.trace
           /\ repeated' = FALSE
           /\ UNCHANGED <<ctor, assigned, fresh, origin>>

\* from_json on a mapping the caller built.
FromJson == \E m \in Mappings : FromJsonCall(m) /\ UNCHANGED doc

\* from_json on exchange-format text.
FromJsonText == \E text \in Texts : FromJsonCall(text) /\ UNCHANGED doc

\* from_json(doc.to_dict()), for a record to_dict() succeeds on.
FromJsonToDict ==
    /\ to_dict(doc).ret.t = "dict"
    /\ FromJsonCall(to_dict(doc).ret)
    /\ doc' = to_dict(doc).self

\* from_json again on the object the previous from_json call was given.
FromJsonAgain == op = "from_json" /\ FromJsonCall(obj) /\ UNCHANGED doc

\* The life of one record: its setters, to_dict(), and from_json() on the
\* mapping to_dict() returns.
Next ==
    \/ SetPrivate
    \/ SetJob
    \/ SetKernel
    \/ SetUpdated
    \/ SetStatus
    \/ SetMetadata
    \/ ToDict
    \/ FromJsonToDict
    \/ FromJsonAgain

Spec == Init /\ [][Next]_vars

\* The factory alone: from_json() on the mappings and texts of the model,
\* beside one record that is left as constructed.
InitJson ==
    /\ Init
    /\ ctor = [name |-> PyStr("myjob-3.10"), job |-> PyStr("myjob"), kernel |-> PyStr("3.10")]

NextJson ==
    \/ FromJson
    \/ FromJsonText
    \/ FromJsonAgain

SpecJson == InitJson /\ [][NextJson]_vars

\* The mappings a record under study is built from: the identity with any
\* of a metadata entry, a status entry, an entry no class declares, and an
\* entry __dict__.
RecordKeys == {METADATA_KEY, STATUS_KEY, "foo", "__dict__"}

RecordValues(key) ==
    CASE key = METADATA_KEY -> {SomeMetadata}
      [] key = STATUS_KEY -> {PyStr("PASS")}
      [] key = "foo" -> {PyStr("bar")}
      [] key = "__dict__" -> {PyDict([k \in {"x"} |-> PyStr("y")])}
      [] key = ID_KEY -> {PyStr("a-b")}

RecordMappings ==
    {PyDict([k \in K \cup {ID_KEY} |-> CHOOSE v \in RecordValues(k) : TRUE]) :
        K \in SUBSET RecordKeys}

\* doc = JobDocument.from_json(m), for a mapping m the call succeeds on.
\* from_json constructs JobDocument(name) and assigns every other entry, so
\* each declared field was last given the entry of m, or its default.
InitFromJson ==
    /\ \E m \in RecordMappings :
          \E order \in orders(m) :
              LET r == from_json(m, order)
              IN /\ r.ret.t = "JobDocument"
                 /\ doc = r.ret.attrs
                 /\ ctor = [name |-> m.d[ID_KEY], job |-> None, kernel |-> None]
                 /\ assigned = [f \in DeclaredKeys |->
                                   IF f \in DOMAIN m.d THEN m.d[f] ELSE Default(f)]
                 /\ fresh = (r.trace = {})
                 /\ op = "from_json"
                 /\ arg = m
                 /\ obj = r.obj
                 /\ ret = r.ret
                 /\ trace = r.trace
                 /\ origin = m
    /\ repeated = FALSE

\* The life of a record however it was made, by its constructor or by
\* from_json: its setters and to_dict().
InitRecord == InitFromJson \/ Init

NextRecord ==
    \/ SetPrivate
    \/ SetJob
    \/ SetKernel
    \/ SetUpdated
    \/ SetStatus
    \/ SetMetadata
    \/ ToDict

SpecRecord == InitRecord /\ [][NextRecord]_vars

(* ------------------------------ the claims ----------------------------- *)

Fields == {PRIVATE_KEY, JOB_KEY, KERNEL_KEY, UPDATED_KEY, STATUS_KEY, METADATA_KEY}

\* The last call was from_json(doc.to_dict()).
RoundTrip == op = "from_json" /\ arg = to_dict(doc).ret

\* The last call was from_json on a mapping that holds the identity key.
FromMappingWithId == op = "from_json" /\ arg.t = "dict" /\ ID_KEY \in DOMAIN arg.d

\* What C5 says of the record from_json returns for the mapping arg.
AppliesMapping ==
    /\ ret.t = "JobDocument"
    /\ name(ret.attrs) = arg.d[ID_KEY]
    /\ \A k \in DOMAIN arg.d \ {ID_KEY} : getattr(ret.attrs, k) = arg.d[k]
    /\ \A f \in Fields \ DOMAIN arg.d : getattr(ret.attrs, f) = Default(f)

\* C1: the mapping to_dict() returns holds, under each of job, kernel,
\* private, status, updated and metadata, the value most recently assigned to
\* that field by its setter, or the value or default of the constructor when the
\* setter was never called.
TheoremC1 ==
    op = "to_dict" =>
        /\ ret.t = "dict"
        /\ \A f \in Fields : f \in DOMAIN ret.d /\ ret.d[f] = assigned[f]

WitnessC1 ==
    /\ op = "to_dict"
    /\ ~fresh
    /\ assigned.job = PyStr("otherjob")
    /\ assigned.status = PyStr("PASS")
    /\ assigned.metadata = SomeMetadata
    /\ ret.d[JOB_KEY] = PyStr("otherjob")

\* C2: from_json(r.to_dict()) returns a record whose id, job, kernel, private,
\* status, updated and metadata equal those of r, so that its to_dict() equals
\* r.to_dict().
TheoremC2 ==
    RoundTrip =>
        /\ ret.t = "JobDocument"
        /\ name(ret.attrs) = name(doc)
        /\ job(ret.attrs) = job(doc)
        /\ kernel(ret.attrs) = kernel(doc)
        /\ private(ret.attrs) = private(doc)
        /\ status(ret.attrs) = status(doc)
        /\ updated(ret.attrs) = updated(doc)
        /\ metadata(ret.attrs) = metadata(doc)
        /\ to_dict(ret.attrs).ret = to_dict(doc).ret

WitnessC2 ==
    /\ RoundTrip
    /\ ~fresh
    /\ metadata(doc) = SomeMetadata
    /\ kernel(doc) = PyStr("3.11")
    /\ ret.t = "JobDocument"
    /\ kernel(ret.attrs) = PyStr("3.11")

\* C3: a record that no setter has been called on has private False, status
\* None, updated None and metadata {}, and its to_dict() has exactly the keys
\* _id, job, kernel, private, status, updated, metadata, with _id the name and
\* job and kernel the arguments of the constructor.
TheoremC3 ==
    fresh =>
        /\ private(doc) = PyBool(FALSE)
        /\ status(doc) = None
        /\ updated(doc) = None
        /\ metadata(doc) = PyDict(EmptyDict)
        /\ op = "to_dict" =>
              /\ ret.t = "dict"
              /\ DOMAIN ret.d = {"_id", "job", "kernel", "private", "status", "updated", "metadata"}
              /\ ret.d["_id"] = ctor.name
              /\ ret.d["job"] = ctor.job
              /\ ret.d["kernel"] = ctor.kernel
              /\ ret.d["private"] = PyBool(FALSE)
              /\ ret.d["status"] = None
              /\ ret.d["updated"] = None
              /\ ret.d["metadata"] = PyDict(EmptyDict)

WitnessC3 ==
    /\ fresh
    /\ op = "to_dict"
    /\ ctor = [name |-> PyStr("myjob-3.10"), job |-> PyStr("myjob"), kernel |-> PyStr("3.10")]
    /\ ret.d["_id"] = PyStr("myjob-3.10")
    /\ ret.d["kernel"] = PyStr("3.10")

\* C4: from_json on a mapping without the identity key raises KeyError (the
\* missing-identity error): no record is returned and no entry of the mapping
\* has been assigned.
TheoremC4 ==
    (op = "from_json" /\ arg.t = "dict" /\ ID_KEY \notin DOMAIN arg.d) =>
        /\ ret = Raise("KeyError")
        /\ trace = {}
        /\ obj = arg

WitnessC4 ==
    /\ op = "from_json"
    /\ arg = PyDict([k \in {JOB_KEY, KERNEL_KEY} |-> IF k = JOB_KEY THEN PyStr("x") ELSE PyStr("y")])
    /\ ret = Raise("KeyError")

\* C5 as stated: for every mapping holding the identity key, from_json returns
\* a record whose id is the identity value, whose attribute k is m[k] for every
\* other key k, and whose declared fields that m does not hold keep their
\* defaults.
ClaimC5 == FromMappingWithId => AppliesMapping

\* C5 as amended: the same, for the mappings whose other keys are each a
\* declared field or a name the class does not define: neither the read-only
\* property collection, nor an attribute the constructor stores a field
\* under, nor one of __class__, __dict__, __weakref__ of object.
TheoremC5 ==
    (/\ FromMappingWithId
     /\ \A k \in DOMAIN arg.d \ {ID_KEY} :
           k \in Fields
              \/ k \notin ReadOnlyProperties \cup BackingAttributes \cup ObjectAttributes)
        => AppliesMapping

WitnessC5 ==
    /\ op = "from_json"
    /\ arg = PyDict([k \in {ID_KEY, STATUS_KEY, METADATA_KEY} |->
                        CASE k = ID_KEY -> PyStr("a-b")
                          [] k = STATUS_KEY -> PyStr("PASS")
                          [] k = METADATA_KEY -> SomeMetadata])
    /\ ret.t = "JobDocument"
    /\ status(ret.attrs) = PyStr("PASS")
    /\ metadata(ret.attrs) = SomeMetadata
    /\ job(ret.attrs) = None
    /\ kernel(ret.attrs) = None

\* The record under study was made by its constructor, or by from_json from
\* a mapping whose keys beside the identity are each a declared field or a
\* name that no class defines.
PlainOrigin ==
    \/ origin = None
    \/ \A k \in DOMAIN origin.d \ {ID_KEY} :
          k \in Fields \/ k \notin DataDescriptors \cup BackingAttributes

\* C6 as stated: in every state of a record, constructed directly or returned
\* by from_json and then changed by setter and to_dict() calls, the metadata is
\* a mapping and never None.
ClaimC6 == metadata(doc).t = "dict"

\* C6 as amended: for a record made by its constructor, or by from_json from a
\* mapping whose other keys are declared fields or names no class defines, the
\* metadata is in every state the value it was last given: {} by the
\* constructor, the metadata entry of the mapping, or the argument of the last
\* call of its setter, whatever that value is.
TheoremC6 == PlainOrigin => metadata(doc) = assigned.metadata

WitnessC6 ==
    /\ origin # None
    /\ DOMAIN origin.d = {ID_KEY, METADATA_KEY, "foo"}
    /\ op = "status"
    /\ metadata(doc) = SomeMetadata
    /\ origin.d[METADATA_KEY] = SomeMetadata

\* C7: the id of a record constructed with a job and a kernel is that job, a
\* hyphen, then that kernel: the name the constructor hands to the base, the
\* name of the record, and the identity entry of to_dict().
ClaimC7 ==
    (ctor.job # None /\ ctor.kernel # None) =>
        /\ super_init_name(ctor.name, ctor.job, ctor.kernel)
              = PyStr(ID_FORMAT(ctor.job, ctor.kernel))
        /\ name(doc) = PyStr(ID_FORMAT(ctor.job, ctor.kernel))
        /\ op = "to_dict" => ret.d[ID_KEY] = PyStr(ID_FORMAT(ctor.job, ctor.kernel))

\* C8: a setter call changes the attribute of its own field only; every other
\* field and the id are as before, and the id is the one given at construction.
TheoremC8 ==
    [][op' \in SetterProperties =>
          /\ DOMAIN doc' = DOMAIN doc
          /\ \A a \in DOMAIN doc \ {"_" \o op'} : doc'[a] = doc[a]
          /\ name(doc') = ctor.name]_vars

WitnessC8 ==
    /\ op = "kernel"
    /\ ctor.job = PyStr("myjob")
    /\ job(doc) = PyStr("otherjob")
    /\ kernel(doc) = PyStr("3.11")
    /\ ctor.name = PyStr("myjob-3.10")
    /\ name(doc) = PyStr("myjob-3.10")

\* C9 as stated: a to_dict() call returns a mapping and leaves every
\* attribute of the record as it was, and a to_dict() call that follows
\* another with no call in between returns an equal mapping.
ClaimC9 ==
    [][op' = "to_dict" =>
          /\ doc' = doc
          /\ ret'.t = "dict"
          /\ op = "to_dict" => ret' = ret]_vars

\* C9 as amended: a to_dict() call leaves every attribute of the record as it
\* was, and one that follows another with no call in between returns or raises
\* the same.  It returns a mapping for a record made by its constructor, or by
\* from_json from a mapping whose other keys are declared fields or names no
\* class defines.
TheoremC9 ==
    [][op' = "to_dict" =>
          /\ doc' = doc
          /\ PlainOrigin => ret'.t = "dict"
          /\ op = "to_dict" => ret' = ret]_vars

WitnessC9 ==
    /\ op = "to_dict"
    /\ repeated
    /\ origin # None
    /\ "foo" \in DOMAIN origin.d
    /\ assigned.metadata = None
    /\ ret.t = "dict"
    /\ ret.d[METADATA_KEY] = None
    /\ ret.d[STATUS_KEY] = PyStr("PASS")

\* The last call was a from_json on a mapping that returned a record.
Consumed == op = "from_json" /\ arg.t = "dict" /\ ret.t = "JobDocument"

\* C10 as stated: a successful from_json on a mapping leaves that very
\* mapping without the identity key and with its other entries as they were,
\* and from_json on that same mapping again raises KeyError.
ClaimC10 ==
    [][/\ Consumed' => obj' = PyDict(pop(arg'.d, ID_KEY))
       /\ (Consumed /\ op' = "from_json" /\ arg' = obj) => ret' = Raise("KeyError")]_vars

\* C10 as amended: a successful from_json on a mapping leaves that very
\* mapping without the identity key and with every other entry as it was,
\* except an entry __dict__: the dictionary under it has become the attribute
\* dictionary of the record and holds what the record holds.  from_json on
\* that same mapping again raises KeyError.
TheoremC10 ==
    [][/\ Consumed' =>
              /\ obj'.t = "dict"
              /\ DOMAIN obj'.d = DOMAIN arg'.d \ {ID_KEY}
              /\ \A k \in DOMAIN obj'.d \ {"__dict__"} : obj'.d[k] = arg'.d[k]
              /\ "__dict__" \in DOMAIN obj'.d => obj'.d["__dict__"] = PyDict(ret'.attrs)
       /\ (Consumed /\ op' = "from_json" /\ arg' = obj) => ret' = Raise("KeyError")]_vars

WitnessC10 ==
    /\ Consumed
    /\ arg = PyDict([k \in {ID_KEY, "__dict__", "foo"} |->
                        CASE k = ID_KEY -> PyStr("a-b")
                          [] k = "__dict__" -> PyDict([x \in {"x"} |-> PyStr("y")])
                          [] k = "foo" -> PyStr("bar")])
    /\ DOMAIN obj.d = {"__dict__", "foo"}
    /\ obj.d["foo"] = PyStr("bar")
    /\ DOMAIN obj.d["__dict__"].d = {"x", "foo"}
    /\ ret.attrs = obj.d["__dict__"].d

====
